---------------------------- MODULE Spec2Model ----------------------------
(***************************************************************************)
(* A model of the runs of gap_down_email.main(): load_env, the Yahoo or    *)
(* the Polygon gap scan, and send_email; started as a script, or by job()  *)
(* of scheduler.py.                                                        *)
(*                                                                         *)
(* Prices are integers (cents).  gap_pct is kept as the exact fraction     *)
(* n/d with d > 0 and compared by cross-multiplication; on the price set   *)
(* used here the IEEE double computation of the source orders and          *)
(* classifies the same values the same way.  NaN prices are not modelled.  *)
(* Dates are day numbers, day 0 being a Monday.  The wall clock does not   *)
(* advance during a run.                                                   *)
(***************************************************************************)
EXTENDS Integers, Sequences, FiniteSets, TLC

(***************************************************************************)
(* Bounds of the model.                                                    *)
(***************************************************************************)
MaxRows == 2

\* The runs one scheduler process starts
MaxJobs == 2

(***************************************************************************)
(* Program constants.                                                      *)
(***************************************************************************)
TargetHour == 8
SampleCap == 50
EasternUtcOffset == 5

Symbols == {"A", "B"}
SymbolOrder == <<"A", "B">>

(***************************************************************************)
(* Sequences of length at most n over S.                                   *)
(***************************************************************************)
SeqUpTo(S, n) == UNION {[1..k -> S] : k \in 0..n}

(***************************************************************************)
(* Calendar of the data providers: bars exist for weekdays only, and the   *)
(* bar of the running day exists once the regular session has opened.      *)
(***************************************************************************)
Weekday(d) == d % 7

IsWeekend(d) == Weekday(d) >= 5

RECURSIVE PrevTradingDay(_)
PrevTradingDay(d) == IF IsWeekend(d - 1) THEN PrevTradingDay(d - 1) ELSE d - 1

SessionOpened(t) == t.hour * 60 + t.minute >= 9 * 60 + 30

LastSession(t) ==
    IF ~IsWeekend(t.date) /\ SessionOpened(t) THEN t.date ELSE PrevTradingDay(t.date)

\* The date of the k-th bar from the end (k = 1 is the last bar) of a daily download.
RECURSIVE BarDate(_, _)
BarDate(t, k) == IF k = 1 THEN LastSession(t) ELSE PrevTradingDay(BarDate(t, k - 1))

(***************************************************************************)
(* The run instants (US/Eastern): Saturday 10:00, Sunday 21:00, Monday     *)
(* 09:00, Tuesday 14:00.                                                   *)
(***************************************************************************)
Nows ==
    { [date |-> 5, hour |-> 10, minute |-> 0],
      [date |-> 6, hour |-> 21, minute |-> 0],
      [date |-> 7, hour |-> 9, minute |-> 0],
      [date |-> 8, hour |-> 14, minute |-> 0] }

(***************************************************************************)
(* Market data of one symbol, as the providers hold it at the run instant. *)
(*   daily     the daily bars, oldest first (dates by BarDate)             *)
(*   daily_err the daily download raises                                   *)
(*   minute    the minute bars of the running day, oldest first            *)
(*   minute_err the minute download raises                                 *)
(***************************************************************************)
PrevBars == { [Open |-> 10000, Close |-> c] : c \in {0, 10000} }

LastBars == { [Open |-> o, Close |-> 10000] : o \in {0, 9450, 9500, 10000, 10500} }

DailyOk == { <<p, l>> : p \in PrevBars, l \in LastBars } \ { <<p, l>> \in PrevBars \X LastBars : p.Close = 0 /\ l.Open # 10000 }

DailyShort == { <<>>, << [Open |-> 10000, Close |-> 10000] >> }

MinuteChoices ==
    { <<>>,
      << [hour |-> 7, minute |-> 45, Close |-> 11000] >>,
      << [hour |-> 8, minute |-> 0, Close |-> 9499] >>,
      << [hour |-> 8, minute |-> 31, Close |-> 9000] >>,
      << [hour |-> 7, minute |-> 45, Close |-> 11000], [hour |-> 8, minute |-> 0, Close |-> 9499] >> }

\* On a weekend day the provider may still hold minute bars of that day (a
\* symbol that trades every day)
WeekendMinuteChoices == { <<>>, << [hour |-> 8, minute |-> 0, Close |-> 9499] >> }

Quotes(t) ==
    { [daily |-> d, daily_err |-> FALSE, minute |-> <<>>, minute_err |-> FALSE] : d \in DailyShort }
    \cup { [daily |-> <<>>, daily_err |-> TRUE, minute |-> <<>>, minute_err |-> FALSE] }
    \cup { [daily |-> d, daily_err |-> FALSE, minute |-> m, minute_err |-> FALSE] :
             d \in DailyOk, m \in IF IsWeekend(t.date) THEN WeekendMinuteChoices ELSE MinuteChoices }
    \cup { [daily |-> d, daily_err |-> FALSE, minute |-> <<>>, minute_err |-> TRUE] :
             d \in IF IsWeekend(t.date) THEN {} ELSE DailyOk }

(***************************************************************************)
(* The environment read by load_env, and the files and services around it. *)
(***************************************************************************)
\* float(text) on the threshold texts of Envs: a number, or ValueError
IsFloat(text) == text \in {"-5", "5"}

Float(text) == IF text = "-5" THEN -5 ELSE 5

CsvCells == {"A", "b", "TICKER"}

CsvFiles == SeqUpTo(CsvCells, MaxRows)

BaseEnv ==
    [ DATA_SOURCE |-> "yahoo", POLYGON_API_KEY |-> "", TICKERS_CSV |-> "tickers.csv",
      MIN_GAP_DOWN_PCT |-> "-5", MIN_GAP_UP_PCT |-> "5", MIN_MARKET_CAP |-> 3,
      ONLY_OPTIONABLE |-> FALSE, RESEND_API_KEY |-> "re_key",
      FINANCIAL_MODELING_PREP_API_KEY |-> "", EMAIL_FROM |-> "me", EMAIL_TO |-> "you" ]

Envs ==
    \* Yahoo over a CSV file or over the exchange listing
    { [BaseEnv EXCEPT !.TICKERS_CSV = f] : f \in {"tickers.csv", "missing.csv", "all_exchanges", "all"} }
    \cup { [BaseEnv EXCEPT !.TICKERS_CSV = "all_exchanges", !.FINANCIAL_MODELING_PREP_API_KEY = "fmp_key"] }
    \* Polygon, with and without its key, and the filters
    \cup { [BaseEnv EXCEPT !.DATA_SOURCE = "polygon", !.POLYGON_API_KEY = k,
                           !.MIN_MARKET_CAP = c, !.ONLY_OPTIONABLE = b] :
             k \in {"", "pk_key"}, c \in {0, 3}, b \in BOOLEAN }
    \* an unknown data source
    \cup { [BaseEnv EXCEPT !.DATA_SOURCE = "other"] }
    \* thresholds that do not parse, with and without the delivery settings
    \cup { [BaseEnv EXCEPT !.MIN_GAP_DOWN_PCT = "abc", !.RESEND_API_KEY = r] : r \in {"", "re_key"} }
    \cup { [BaseEnv EXCEPT !.MIN_GAP_UP_PCT = "abc", !.DATA_SOURCE = "polygon", !.POLYGON_API_KEY = "pk_key"] }
    \* thresholds the wrong way round (down above up)
    \cup { [BaseEnv EXCEPT !.MIN_GAP_DOWN_PCT = "5", !.MIN_GAP_UP_PCT = "-5"] }
    \cup { [BaseEnv EXCEPT !.MIN_GAP_DOWN_PCT = "5", !.MIN_GAP_UP_PCT = "-5", !.DATA_SOURCE = "polygon",
                           !.POLYGON_API_KEY = "pk_key", !.ONLY_OPTIONABLE = TRUE] }
    \* missing or placeholder delivery settings
    \cup { [BaseEnv EXCEPT !.RESEND_API_KEY = r, !.EMAIL_FROM = f, !.EMAIL_TO = t] :
             r \in {"", "re_key", "your_resend_api_key_here"}, f \in {"", "me"}, t \in {"", "you"} }

VARIABLES
    env,        \* the process environment (.env)
    now,        \* the run instant, US/Eastern
    mkt,        \* the market data of every symbol
    csv,        \* the first cells of the rows of the file tickers.csv
    pc,         \* where main() is
    cfg,        \* load_env's result
    tickers,    \* yahoo_gap_scan: the ticker universe
    i,          \* yahoo_gap_scan / polygon_gap_scan: tickers visited by the loop
    all_data, gap_down_rows, gap_up_rows,
    successful_downloads, failed_downloads,
    data,       \* the scan's return value
    prev_trading_day, today_str,   \* polygon_gap_scan: the two dates it asks for
    open_today,     \* polygon_gap_scan: the dict ticker -> price, in insertion order
    premarket_found,
    prev_close,     \* polygon_gap_scan: the dict ticker -> previous close
    meta,           \* polygon_gap_scan: the reference data per ticker
    requests,   \* the kinds of provider request issued so far
    used,       \* per symbol, where the price pair of its record came from
    send_invoked, email_sent, exit_code,
    scheduler_pc,   \* scheduler.py: "off" for a run of gap_down_email.py itself
    jobs_started    \* scheduler.py: the calls of job() so far

inputs == << env, now, mkt, csv >>

yahooVars == << successful_downloads, failed_downloads >>

polygonVars == << prev_trading_day, today_str, open_today, premarket_found, prev_close, meta >>

rowVars == << all_data, gap_down_rows, gap_up_rows >>

schedVars == << scheduler_pc, jobs_started >>

vars == << env, now, mkt, csv, pc, cfg, tickers, i, all_data, gap_down_rows, gap_up_rows,
           successful_downloads, failed_downloads, data, prev_trading_day, today_str,
           open_today, premarket_found, prev_close, meta, requests, used,
           send_invoked, email_sent, exit_code, scheduler_pc, jobs_started >>

NoData == [gap_downs |-> <<>>, gap_ups |-> <<>>, all_data |-> <<>>]

NoMeta == [s \in Symbols |-> [present |-> FALSE, market_cap |-> 0, optionable |-> FALSE]]

NotUsed == [tier |-> "none", prev_date |-> -1, price_date |-> -1]

\* Inputs a run never reads are held at one value: the CSV file when the universe
\* is not read from it, the market when no scan is reached.
ReadsCsv(e) == e.DATA_SOURCE = "yahoo" /\ e.TICKERS_CSV \notin {"all_exchanges", "all", "missing.csv"}

PassesLoadEnv(e) ==
    /\ IsFloat(e.MIN_GAP_DOWN_PCT) /\ IsFloat(e.MIN_GAP_UP_PCT)
    /\ e.RESEND_API_KEY # "" /\ e.EMAIL_FROM # "" /\ e.EMAIL_TO # ""

ReachesScan(e) ==
    /\ PassesLoadEnv(e)
    /\ \/ e.DATA_SOURCE = "polygon" /\ e.POLYGON_API_KEY # ""
       \/ e.DATA_SOURCE = "yahoo" /\ e.TICKERS_CSV # "missing.csv"
             /\ (e.TICKERS_CSV \in {"all_exchanges", "all"} => e.FINANCIAL_MODELING_PREP_API_KEY # "")

QuietQuote == [daily |-> <<>>, daily_err |-> FALSE, minute |-> <<>>, minute_err |-> FALSE]

GapDownQuote ==
    [ daily |-> << [Open |-> 10000, Close |-> 10000], [Open |-> 9500, Close |-> 10000] >>,
      daily_err |-> FALSE, minute |-> <<>>, minute_err |-> FALSE ]

\* The markets of a run: every combination of quotes for the runs that scan with
\* working delivery settings, two markets for the other runs that scan.
Markets(e, t) ==
    IF ~ReachesScan(e) THEN { [s \in Symbols |-> QuietQuote] }
    ELSE IF e.RESEND_API_KEY = "re_key" /\ e.TICKERS_CSV = "tickers.csv"
         THEN [Symbols -> Quotes(t)]
         ELSE { [s \in Symbols |-> QuietQuote], [s \in Symbols |-> GapDownQuote] }

CsvOf(e) == IF ~ReadsCsv(e) THEN {<<>>}
            ELSE IF e.RESEND_API_KEY = "re_key" THEN CsvFiles ELSE {<< "A", "b" >>}

\* scheduler.main calls job() once at startup; the runs under the scheduler are
\* followed over the two markets without minute bars.
Launches(m) ==
    IF m \in { [s \in Symbols |-> QuietQuote], [s \in Symbols |-> GapDownQuote] }
    THEN {"off", "in_job"}
    ELSE {"off"}

\* The state of main() when it is entered
MainEntered ==
    /\ pc = "start"
    /\ cfg = [DATA_SOURCE |-> ""]
    /\ tickers = <<>>
    /\ i = 0
    /\ all_data = <<>>
    /\ gap_down_rows = <<>>
    /\ gap_up_rows = <<>>
    /\ successful_downloads = 0
    /\ failed_downloads = 0
    /\ data = NoData
    /\ prev_trading_day = -1
    /\ today_str = -1
    /\ open_today = <<>>
    /\ premarket_found = 0
    /\ prev_close = <<>>
    /\ meta = NoMeta
    /\ requests = {}
    /\ used = [s \in Symbols |-> NotUsed]
    /\ send_invoked = FALSE
    /\ email_sent = FALSE
    /\ exit_code = -1

Init ==
    /\ env \in Envs
    /\ now \in Nows
    /\ mkt \in Markets(env, now)
    /\ csv \in CsvOf(env)
    /\ MainEntered
    /\ scheduler_pc \in Launches(mkt)
    /\ jobs_started = IF scheduler_pc = "in_job" THEN 1 ELSE 0


(***************************************************************************)
(* gap_pct and its comparisons.                                            *)
(***************************************************************************)
RECURSIVE Gcd(_, _)
Gcd(a, b) == IF b = 0 THEN a ELSE Gcd(b, a % b)

Abs(a) == IF a < 0 THEN -a ELSE a

\* Mutant of GapPct: the change is taken relative to today's price
GapPctOverOpen(o, c_prev) ==
    LET n == (o - c_prev) * 100
        g == Gcd(Abs(n), Abs(o))
    IN  IF o = 0 THEN [n |-> -100, d |-> 1] ELSE [n |-> n \div g, d |-> o \div g]

\* (today_open - prev_close) / prev_close * 100.0, for prev_close # 0: the
\* fraction in lowest terms, with a positive denominator
GapPct(o, c_prev) ==
    LET n == (o - c_prev) * 100
        g == Gcd(Abs(n), Abs(c_prev))
    IN  IF c_prev > 0 THEN [n |-> n \div g, d |-> c_prev \div g]
        ELSE [n |-> (-n) \div g, d |-> (-c_prev) \div g]

\* gap_pct <= threshold and gap_pct >= threshold
GapLeq(g, threshold) == g.n <= threshold * g.d

GapGeq(g, threshold) == g.n >= threshold * g.d

GapEquals(g, threshold) == g.n = threshold * g.d

\* x["gap_pct"] < y["gap_pct"], the comparison list.sort makes on the keys
KeyLess(x, y) == x.gap_pct.n * y.gap_pct.d < y.gap_pct.n * x.gap_pct.d

\* list.sort(key=gap_pct, reverse=...): a stable sort; with reverse the larger key
\* goes first and equal keys keep their order.
GoesBefore(x, y, reverse) == IF reverse THEN KeyLess(y, x) ELSE KeyLess(x, y)

RECURSIVE InsertStable(_, _, _)
InsertStable(sorted, x, reverse) ==
    IF sorted = <<>> THEN << x >>
    ELSE IF GoesBefore(x, Head(sorted), reverse) THEN << x >> \o sorted
    ELSE << Head(sorted) >> \o InsertStable(Tail(sorted), x, reverse)

RECURSIVE SortFrom(_, _, _)
SortFrom(done, rest, reverse) ==
    IF rest = <<>> THEN done
    ELSE SortFrom(InsertStable(done, Head(rest), reverse), Tail(rest), reverse)

\* Mutant of SortByGap: reverse=True is dropped
SortByGapAscending(rows, reverse) == SortFrom(<<>>, rows, FALSE)

SortByGap(rows, reverse) == SortFrom(<<>>, rows, reverse)

(***************************************************************************)
(* get_premarket_price and the minute-bar test shared with the Polygon loop *)
(***************************************************************************)
NoPremarket == [found |-> FALSE, price |-> 0, hour |-> 0, minute |-> 0, source |-> "none"]

\* Mutant of InWindow: only the bar of the target minute itself
InWindowExact(bar, target_hour) == bar.hour = target_hour /\ bar.minute = 0

\* "around target hour ET (+/- 30 minutes)"
InWindow(bar, target_hour) ==
    \/ bar.hour = target_hour /\ 0 <= bar.minute /\ bar.minute <= 30
    \/ bar.hour = target_hour - 1 /\ bar.minute >= 30

RECURSIVE FirstInWindow(_, _)
FirstInWindow(bars, target_hour) ==
    IF bars = <<>> THEN NoPremarket
    ELSE IF InWindow(Head(bars), target_hour)
         THEN [found |-> TRUE, price |-> Head(bars).Close, hour |-> Head(bars).hour,
               minute |-> Head(bars).minute, source |-> "pre-market"]
         ELSE FirstInWindow(Tail(bars), target_hour)

\* Mutant of PremarketDownloads: the weekend test is left out
PremarketDownloadsAlways(t) == TRUE

\* Whether get_premarket_price downloads the minute bars at all
PremarketDownloads(t) == ~IsWeekend(t.date)

GetPremarketPrice(q, t, target_hour) ==
    IF ~PremarketDownloads(t) THEN NoPremarket
    ELSE IF q.minute_err THEN NoPremarket
    ELSE IF Len(q.minute) = 0 THEN NoPremarket
    ELSE FirstInWindow(q.minute, target_hour)

(***************************************************************************)
(* main: load_env and the dispatch on DATA_SOURCE                          *)
(***************************************************************************)
Exit(code) ==
    /\ pc' = "exit"
    /\ exit_code' = code

\* Mutant of LoadEnv: the "Basic checks" of the delivery settings are left out
LoadEnvUnchecked ==
    /\ pc = "start"
    /\ IF ~IsFloat(env.MIN_GAP_DOWN_PCT) \/ ~IsFloat(env.MIN_GAP_UP_PCT)
       THEN Exit(1) /\ UNCHANGED cfg
       ELSE /\ pc' = "loaded"
            /\ cfg' = [env EXCEPT !.MIN_GAP_DOWN_PCT = Float(@), !.MIN_GAP_UP_PCT = Float(@)]
            /\ UNCHANGED exit_code
    /\ UNCHANGED << inputs, schedVars, tickers, i, rowVars, yahooVars, polygonVars, data, requests, used,
                    send_invoked, email_sent >>

LoadEnv ==
    /\ pc = "start"
    /\ IF ~IsFloat(env.MIN_GAP_DOWN_PCT) \/ ~IsFloat(env.MIN_GAP_UP_PCT)
       THEN Exit(1) /\ UNCHANGED cfg      \* ValueError, caught by main
       ELSE IF env.RESEND_API_KEY = "" \/ env.EMAIL_FROM = "" \/ env.EMAIL_TO = ""
       THEN Exit(2) /\ UNCHANGED cfg
       ELSE /\ pc' = "loaded"
            /\ cfg' = [env EXCEPT !.MIN_GAP_DOWN_PCT = Float(@), !.MIN_GAP_UP_PCT = Float(@)]
            /\ UNCHANGED exit_code
    /\ UNCHANGED << inputs, schedVars, tickers, i, rowVars, yahooVars, polygonVars, data, requests, used,
                    send_invoked, email_sent >>

Dispatch ==
    /\ pc = "loaded"
    /\ IF cfg.DATA_SOURCE = "polygon" THEN pc' = "polygon_start" /\ UNCHANGED exit_code
       ELSE IF cfg.DATA_SOURCE = "yahoo" THEN pc' = "yahoo_start" /\ UNCHANGED exit_code
       ELSE Exit(2)
    /\ UNCHANGED << inputs, schedVars, cfg, tickers, i, rowVars, yahooVars, polygonVars, data, requests,
                    used, send_invoked, email_sent >>

(***************************************************************************)
(* yahoo_gap_scan: the ticker universe                                     *)
(***************************************************************************)
ImportantExchanges == {"NASDAQ", "New York Stock Exchange"}

\* The replies of the exchange listing: an HTTP error, and listings
FmpReplies ==
    { [status |-> 500, data |-> <<>>],
      [status |-> 200, data |-> << [symbol |-> "B", exchange |-> "OTC"] >>],
      [status |-> 200, data |-> << [symbol |-> "A", exchange |-> "NASDAQ"],
                                   [symbol |-> "BRK-B", exchange |-> "NASDAQ"],
                                   [symbol |-> "B", exchange |-> "New York Stock Exchange"],
                                   [symbol |-> "B", exchange |-> "OTC"] >>] }

\* item["symbol"].isalpha() and len(item["symbol"]) <= 4, on the symbols of FmpReplies
PlainSymbol(sym) == sym \in Symbols

GetAllExchangeTickers(reply) ==
    IF reply.status = 200
    THEN LET keep == SelectSeq(reply.data,
                        LAMBDA item : item.exchange \in ImportantExchanges /\ PlainSymbol(item.symbol))
         IN  [k \in 1..Len(keep) |-> keep[k].symbol]
    ELSE <<>>

\* row[0].strip().upper(), on the cells of CsvCells
StripUpper(cell) == IF cell = "b" THEN "B" ELSE cell

ReadCsv(rows) ==
    LET cells == [k \in 1..Len(rows) |-> StripUpper(rows[k])]
    IN  SelectSeq(cells, LAMBDA t : t # "" /\ t # "TICKER")

FileExists(path) == path = "tickers.csv"

YahooLoadTickers ==
    /\ pc = "yahoo_start"
    /\ IF cfg.TICKERS_CSV = "all_exchanges" \/ cfg.TICKERS_CSV = "all"
       THEN IF cfg.FINANCIAL_MODELING_PREP_API_KEY = ""
            THEN Exit(2) /\ UNCHANGED << tickers, requests >>
            ELSE \E reply \in FmpReplies :
                    /\ requests' = requests \cup {"fmp_list"}
                    /\ IF GetAllExchangeTickers(reply) = <<>>
                       THEN Exit(2) /\ UNCHANGED tickers
                       ELSE /\ tickers' = GetAllExchangeTickers(reply)
                            /\ pc' = "yahoo_loop"
                            /\ UNCHANGED exit_code
       ELSE IF ~FileExists(cfg.TICKERS_CSV)
            THEN Exit(2) /\ UNCHANGED << tickers, requests >>
            ELSE /\ tickers' = ReadCsv(csv)
                 /\ pc' = "yahoo_loop"
                 /\ UNCHANGED << exit_code, requests >>
    /\ UNCHANGED << inputs, schedVars, cfg, i, rowVars, yahooVars, polygonVars, data, used,
                    send_invoked, email_sent >>

(***************************************************************************)
(* yahoo_gap_scan: one iteration of the loop over the tickers              *)
(***************************************************************************)
StockData(t, c_prev, o, source) ==
    [ ticker |-> t, prev_close |-> c_prev, today_open |-> o,
      gap_pct |-> GapPct(o, c_prev), data_source |-> source ]

\* Mutant of Category: the thresholds themselves are excluded (< and > for <= and >=)
CategoryStrict(g, c) ==
    IF GapLeq(g, c.MIN_GAP_DOWN_PCT) /\ ~GapEquals(g, c.MIN_GAP_DOWN_PCT) THEN "down"
    ELSE IF GapGeq(g, c.MIN_GAP_UP_PCT) /\ ~GapEquals(g, c.MIN_GAP_UP_PCT) THEN "up"
    ELSE "none"

\* Mutant of Category: the gap-up test comes first
CategoryUpFirst(g, c) ==
    IF GapGeq(g, c.MIN_GAP_UP_PCT) THEN "up"
    ELSE IF GapLeq(g, c.MIN_GAP_DOWN_PCT) THEN "down"
    ELSE "none"

\* The branch "if gap_pct <= MIN_GAP_DOWN_PCT ... elif gap_pct >= MIN_GAP_UP_PCT"
Category(g, c) ==
    IF GapLeq(g, c.MIN_GAP_DOWN_PCT) THEN "down"
    ELSE IF GapGeq(g, c.MIN_GAP_UP_PCT) THEN "up"
    ELSE "none"

\* What the body of the loop does with ticker t: "short" (fewer than two bars),
\* "raise" (an exception reaches the handler of the loop) or "record".
YahooOutcome(q) ==
    IF q.daily_err THEN "raise"
    ELSE IF Len(q.daily) < 2 THEN "short"
    ELSE IF q.daily[Len(q.daily) - 1].Close = 0 THEN "raise"
    ELSE "record"

\* Mutant of YahooStockData: the regular price is the last bar's close
YahooStockDataClose(t, q, at) ==
    LET df == q.daily
        premarket_data == GetPremarketPrice(q, at, TargetHour)
    IN  StockData(t, df[Len(df) - 1].Close,
                  IF premarket_data.found THEN premarket_data.price ELSE df[Len(df)].Close,
                  IF premarket_data.found THEN premarket_data.source ELSE "regular-open")

\* stock_data for a ticker whose outcome is "record"
YahooStockData(t, q, at) ==
    LET df == q.daily
        prev_close_price == df[Len(df) - 1].Close
        premarket_data == GetPremarketPrice(q, at, TargetHour)
        today_open_price == IF premarket_data.found THEN premarket_data.price
                            ELSE df[Len(df)].Open
    IN  StockData(t, prev_close_price, today_open_price,
                  IF premarket_data.found THEN premarket_data.source ELSE "regular-open")

\* The requests one iteration issues: the daily download, and the minute
\* download of get_premarket_price when the iteration gets that far.
YahooRequests(q, at) ==
    {"yf_daily"} \cup
    (IF ~q.daily_err /\ Len(q.daily) >= 2 /\ PremarketDownloads(at) THEN {"yf_minute"} ELSE {})

\* Mutant of YahooFail: the failure is not counted
YahooFailUncounted ==
    /\ UNCHANGED << all_data, gap_down_rows, gap_up_rows, successful_downloads, failed_downloads, used >>

YahooFail ==
    /\ failed_downloads' = failed_downloads + 1
    /\ UNCHANGED << all_data, gap_down_rows, gap_up_rows, successful_downloads, used >>

YahooAppend(t, q) ==
    LET stock_data == YahooStockData(t, q, now)
        category == Category(stock_data.gap_pct, cfg)
        premarket == GetPremarketPrice(q, now, TargetHour).found
    IN  /\ successful_downloads' = successful_downloads + 1
        /\ all_data' = Append(all_data, stock_data)
        /\ gap_down_rows' = IF category = "down" THEN Append(gap_down_rows, stock_data)
                            ELSE gap_down_rows
        /\ gap_up_rows' = IF category = "up" THEN Append(gap_up_rows, stock_data)
                          ELSE gap_up_rows
        /\ used' = [used EXCEPT ![t] =
                      [ tier |-> IF premarket THEN "minute" ELSE "daily_open",
                        prev_date |-> BarDate(now, 2),
                        price_date |-> IF premarket THEN now.date ELSE BarDate(now, 1) ]]
        /\ UNCHANGED failed_downloads

\* Mutant of YahooStep: a failing ticker ends the loop (break for continue)
YahooStepBreaks ==
    /\ pc = "yahoo_loop"
    /\ i < Len(tickers)
    /\ LET t == tickers[i + 1]
           q == mkt[t]
       IN  /\ requests' = requests \cup YahooRequests(q, now)
           /\ IF YahooOutcome(q) = "record"
              THEN YahooAppend(t, q) /\ i' = i + 1
              ELSE YahooFail /\ i' = Len(tickers)
    /\ UNCHANGED << inputs, schedVars, pc, cfg, tickers, polygonVars, data, send_invoked, email_sent,
                    exit_code >>

YahooStep ==
    /\ pc = "yahoo_loop"
    /\ i < Len(tickers)
    /\ LET t == tickers[i + 1]
           q == mkt[t]
       IN  /\ requests' = requests \cup YahooRequests(q, now)
           /\ IF YahooOutcome(q) = "record" THEN YahooAppend(t, q) ELSE YahooFail
    /\ i' = i + 1
    /\ UNCHANGED << inputs, schedVars, pc, cfg, tickers, polygonVars, data, send_invoked, email_sent,
                    exit_code >>

\* Mutant of YahooFinish: all_data is returned in the order of the loop
YahooFinishKeepsOrder ==
    /\ pc = "yahoo_loop"
    /\ i = Len(tickers)
    /\ gap_down_rows' = SortByGap(gap_down_rows, FALSE)
    /\ gap_up_rows' = SortByGap(gap_up_rows, TRUE)
    /\ data' = [gap_downs |-> gap_down_rows', gap_ups |-> gap_up_rows', all_data |-> all_data]
    /\ pc' = "send"
    /\ UNCHANGED << inputs, schedVars, cfg, tickers, i, all_data, yahooVars, polygonVars, requests, used,
                    send_invoked, email_sent, exit_code >>

\* The three sorts and the return after the loop
YahooFinish ==
    /\ pc = "yahoo_loop"
    /\ i = Len(tickers)
    /\ gap_down_rows' = SortByGap(gap_down_rows, FALSE)
    /\ gap_up_rows' = SortByGap(gap_up_rows, TRUE)
    /\ all_data' = SortByGap(all_data, FALSE)
    /\ data' = [gap_downs |-> gap_down_rows', gap_ups |-> gap_up_rows', all_data |-> all_data']
    /\ pc' = "send"
    /\ UNCHANGED << inputs, schedVars, cfg, tickers, i, yahooVars, polygonVars, requests, used,
                    send_invoked, email_sent, exit_code >>

(***************************************************************************)
(* polygon_gap_scan                                                        *)
(***************************************************************************)
\* Python dicts that keep insertion order, as sequences of entries keyed by ticker
DictHas(dict, k) == \E j \in 1..Len(dict) : dict[j].ticker = k

DictGet(dict, k) == dict[CHOOSE j \in 1..Len(dict) : dict[j].ticker = k]

DictSet(dict, entry) ==
    IF DictHas(dict, entry.ticker)
    THEN [j \in 1..Len(dict) |-> IF dict[j].ticker = entry.ticker THEN entry ELSE dict[j]]
    ELSE Append(dict, entry)

\* datetime.now(timezone.utc).date() for a US/Eastern instant
UtcDate(t) == IF t.hour + EasternUtcOffset >= 24 THEN t.date + 1 ELSE t.date

\* The grouped daily aggregates of one date: a result per symbol with a bar on it
HasBarOn(q, at, date) == \E k \in 1..Len(q.daily) : BarDate(at, k) = date

BarOn(q, at, date) ==
    LET k == CHOOSE k \in 1..Len(q.daily) : BarDate(at, k) = date
    IN  q.daily[Len(q.daily) - k + 1]

Grouped(m, at, date) ==
    LET listed == SelectSeq(SymbolOrder, LAMBDA sym : HasBarOn(m[sym], at, date))
    IN  [k \in 1..Len(listed) |->
            [ T |-> listed[k], o |-> BarOn(m[listed[k]], at, date).Open,
              c |-> BarOn(m[listed[k]], at, date).Close ]]

\* The minute aggregates of one ticker for one date
MinuteResults(q, at, date) == IF date = at.date THEN q.minute ELSE <<>>

\* available_tickers[:50]
Sample(available) == SubSeq(available, 1, IF Len(available) > SampleCap THEN SampleCap ELSE Len(available))

\* What /v1/marketstatus/now gives for prev.market: nothing, or the trading day before
StatusPrev(at) == {-1, PrevTradingDay(UtcDate(at))}

PolygonStart ==
    /\ pc = "polygon_start"
    /\ IF cfg.POLYGON_API_KEY = ""
       THEN /\ Exit(2)
            /\ UNCHANGED << tickers, prev_trading_day, today_str, requests >>
       ELSE \E market \in StatusPrev(now) :
              LET prev == IF market = -1 THEN UtcDate(now) - 1 ELSE market
                  grp_prev_for_tickers == Grouped(mkt, now, prev)
                  available_tickers == [k \in 1..Len(grp_prev_for_tickers) |-> grp_prev_for_tickers[k].T]
              IN  /\ prev_trading_day' = prev
                  /\ today_str' = UtcDate(now)
                  /\ tickers' = Sample(available_tickers)
                  /\ requests' = requests \cup {"polygon_status", "polygon_grouped"}
                  /\ pc' = "polygon_minute"
                  /\ UNCHANGED exit_code
    /\ UNCHANGED << inputs, schedVars, cfg, i, rowVars, yahooVars, open_today, premarket_found, prev_close,
                    meta, data, used, send_invoked, email_sent >>

\* One iteration of "for i, ticker in enumerate(sample_tickers)"
PolygonMinuteStep ==
    /\ pc = "polygon_minute"
    /\ i < Len(tickers)
    /\ LET ticker == tickers[i + 1]
           q == mkt[ticker]
           bar == FirstInWindow(MinuteResults(q, now, today_str), TargetHour)
       IN  IF ~q.minute_err /\ bar.found
           THEN /\ open_today' = DictSet(open_today, [ticker |-> ticker, price |-> bar.price, tier |-> "minute"])
                /\ premarket_found' = premarket_found + 1
           ELSE UNCHANGED << open_today, premarket_found >>
    /\ requests' = requests \cup {"polygon_minute"}
    /\ i' = i + 1
    /\ UNCHANGED << inputs, schedVars, pc, cfg, tickers, rowVars, yahooVars, prev_trading_day, today_str,
                    prev_close, meta, data, used, send_invoked, email_sent, exit_code >>

\* "if premarket_found < len(sample_tickers) * 0.1"
LowPremarket(found, sample) == found * 10 < Len(sample)

RECURSIVE AddRegularOpens(_, _)
AddRegularOpens(open, results) ==
    IF results = <<>> THEN open
    ELSE AddRegularOpens(
            IF ~DictHas(open, Head(results).T)
            THEN Append(open, [ticker |-> Head(results).T, price |-> Head(results).o, tier |-> "daily_open"])
            ELSE open,
            Tail(results))

MetaEntries ==
    { [present |-> FALSE, market_cap |-> 0, optionable |-> FALSE],
      [present |-> TRUE, market_cap |-> 1, optionable |-> TRUE],
      [present |-> TRUE, market_cap |-> 5, optionable |-> FALSE] }

\* The regular-open fallback, the previous closes and the reference data
PolygonCollect ==
    /\ pc = "polygon_minute"
    /\ i = Len(tickers)
    /\ open_today' = IF LowPremarket(premarket_found, tickers)
                     THEN AddRegularOpens(open_today, Grouped(mkt, now, today_str))
                     ELSE open_today
    /\ LET results_prev == Grouped(mkt, now, prev_trading_day)
       IN  prev_close' = [k \in 1..Len(results_prev) |->
                            [ticker |-> results_prev[k].T, price |-> results_prev[k].c]]
    /\ IF cfg.MIN_MARKET_CAP > 0 \/ cfg.ONLY_OPTIONABLE
       THEN /\ meta' \in [Symbols -> MetaEntries]
            /\ requests' = requests \cup {"polygon_grouped", "polygon_reference"}
       ELSE /\ meta' = NoMeta
            /\ requests' = requests \cup {"polygon_grouped"}
    /\ pc' = "polygon_rows"
    /\ UNCHANGED << inputs, schedVars, cfg, tickers, i, rowVars, yahooVars, prev_trading_day, today_str,
                    premarket_found, data, used, send_invoked, email_sent, exit_code >>

\* "for t, o in open_today.items()": a row for every pair of non-zero prices
RECURSIVE BuildRows(_, _)
BuildRows(open, closes) ==
    IF open = <<>> THEN <<>>
    ELSE LET t == Head(open).ticker
             o == Head(open).price
         IN  IF ~DictHas(closes, t) \/ DictGet(closes, t).price = 0 \/ o = 0
             THEN BuildRows(Tail(open), closes)
             ELSE << StockData(t, DictGet(closes, t).price, o, "unset") >>
                  \o BuildRows(Tail(open), closes)

SkipReason(row, m, c) ==
    IF m[row.ticker].present
    THEN IF m[row.ticker].market_cap < c.MIN_MARKET_CAP THEN "Low Market Cap"
         ELSE IF c.ONLY_OPTIONABLE /\ ~m[row.ticker].optionable THEN "Not Optionable"
         ELSE "none"
    ELSE "none"

\* Mutant of PolygonCategory: the filters are not applied
PolygonCategoryUnfiltered(row, m, c) == Category(row.gap_pct, c)

\* The branch of the loop "for row in rows" that fills gap_downs and gap_ups
PolygonCategory(row, m, c) ==
    IF SkipReason(row, m, c) = "none" THEN Category(row.gap_pct, c) ELSE "filtered"

\* The Data Type column of the debugging tables
DataType(row) == IF row.data_source = "pre-market" THEN "Pre-market" ELSE "Regular"

PolygonAggregate ==
    /\ pc = "polygon_rows"
    /\ LET rows == BuildRows(open_today, prev_close)
           gap_downs == SelectSeq(rows, LAMBDA row : PolygonCategory(row, meta, cfg) = "down")
           gap_ups == SelectSeq(rows, LAMBDA row : PolygonCategory(row, meta, cfg) = "up")
       IN  /\ all_data' = SortByGap(rows, FALSE)
           /\ gap_down_rows' = SortByGap(gap_downs, FALSE)
           /\ gap_up_rows' = SortByGap(gap_ups, TRUE)
           /\ used' = [s \in Symbols |->
                         IF \E k \in 1..Len(rows) : rows[k].ticker = s
                         THEN [ tier |-> DictGet(open_today, s).tier,
                                prev_date |-> prev_trading_day,
                                price_date |-> today_str ]
                         ELSE used[s]]
    /\ data' = [gap_downs |-> gap_down_rows', gap_ups |-> gap_up_rows', all_data |-> all_data']
    /\ pc' = "send"
    /\ UNCHANGED << inputs, schedVars, cfg, tickers, i, yahooVars, polygonVars, requests,
                    send_invoked, email_sent, exit_code >>

\* A request outside the minute loop raises: main's handler ends the run
PolygonRequestFails ==
    /\ \/ pc = "polygon_start" /\ cfg.POLYGON_API_KEY # ""
       \/ pc = "polygon_minute" /\ i = Len(tickers)
    /\ Exit(1)
    /\ requests' = requests \cup {"polygon_failed"}
    /\ UNCHANGED << inputs, schedVars, cfg, tickers, i, rowVars, yahooVars, polygonVars, data, used,
                    send_invoked, email_sent >>

(***************************************************************************)
(* send_email, and the end of main                                         *)
(***************************************************************************)
\* Mutant of SendEmail: a failed delivery empties the result
SendEmailDiscards ==
    /\ pc = "send"
    /\ send_invoked' = TRUE
    /\ IF cfg.RESEND_API_KEY = "" \/ cfg.RESEND_API_KEY = "your_resend_api_key_here"
       THEN Exit(3) /\ data' = NoData /\ UNCHANGED << requests, email_sent >>
       ELSE /\ requests' = requests \cup {"resend_send"}
            /\ \E delivered \in BOOLEAN :
                  IF delivered
                  THEN email_sent' = TRUE /\ Exit(0) /\ UNCHANGED data
                  ELSE Exit(3) /\ data' = NoData /\ UNCHANGED email_sent
    /\ UNCHANGED << inputs, schedVars, cfg, tickers, i, rowVars, yahooVars, polygonVars, used >>

SendEmail ==
    /\ pc = "send"
    /\ send_invoked' = TRUE
    /\ IF cfg.RESEND_API_KEY = "" \/ cfg.RESEND_API_KEY = "your_resend_api_key_here"
       THEN Exit(3) /\ UNCHANGED << requests, email_sent >>
       ELSE /\ requests' = requests \cup {"resend_send"}
            /\ \E delivered \in BOOLEAN :
                  IF delivered
                  THEN email_sent' = TRUE /\ Exit(0)
                  ELSE Exit(3) /\ UNCHANGED email_sent
    /\ UNCHANGED << inputs, schedVars, cfg, tickers, i, rowVars, yahooVars, polygonVars, data, used >>

(***************************************************************************)
(* scheduler.py: job() and the loop of main().  Inside job(), main() of     *)
(* gap_down_email returning is exit_code 0 and sys.exit(n) raises           *)
(* SystemExit, which "except Exception" does not catch.                     *)
(***************************************************************************)
JobReturns ==
    /\ scheduler_pc = "in_job"
    /\ pc = "exit"
    /\ exit_code = 0
    /\ scheduler_pc' = "waiting"
    /\ UNCHANGED << inputs, pc, cfg, tickers, i, rowVars, yahooVars, polygonVars, data, requests,
                    used, send_invoked, email_sent, exit_code, jobs_started >>

JobRaisesSystemExit ==
    /\ scheduler_pc = "in_job"
    /\ pc = "exit"
    /\ exit_code # 0
    /\ scheduler_pc' = "terminated"
    /\ UNCHANGED << inputs, pc, cfg, tickers, i, rowVars, yahooVars, polygonVars, data, requests,
                    used, send_invoked, email_sent, exit_code, jobs_started >>

\* schedule.run_pending() at the scheduled time: job() again, main() anew
RunPending ==
    /\ scheduler_pc = "waiting"
    /\ jobs_started < MaxJobs
    /\ jobs_started' = jobs_started + 1
    /\ scheduler_pc' = "in_job"
    /\ now' \in Nows
    /\ pc' = "start"
    /\ cfg' = [DATA_SOURCE |-> ""]
    /\ tickers' = <<>>
    /\ i' = 0
    /\ all_data' = <<>>
    /\ gap_down_rows' = <<>>
    /\ gap_up_rows' = <<>>
    /\ successful_downloads' = 0
    /\ failed_downloads' = 0
    /\ data' = NoData
    /\ prev_trading_day' = -1
    /\ today_str' = -1
    /\ open_today' = <<>>
    /\ premarket_found' = 0
    /\ prev_close' = <<>>
    /\ meta' = NoMeta
    /\ requests' = {}
    /\ used' = [s \in Symbols |-> NotUsed]
    /\ send_invoked' = FALSE
    /\ email_sent' = FALSE
    /\ exit_code' = -1
    /\ UNCHANGED << env, mkt, csv >>

Next ==
    \/ LoadEnv
    \/ Dispatch
    \/ YahooLoadTickers
    \/ YahooStep
    \/ YahooFinish
    \/ PolygonStart
    \/ PolygonMinuteStep
    \/ PolygonCollect
    \/ PolygonAggregate
    \/ PolygonRequestFails
    \/ SendEmail
    \/ JobReturns
    \/ JobRaisesSystemExit
    \/ RunPending

Spec == Init /\ [][Next]_vars

(***************************************************************************)
(* Vocabulary of the properties                                            *)
(***************************************************************************)
\* The scan has returned its result to main
Returned == pc = "send" \/ send_invoked

IsYahoo == cfg.DATA_SOURCE = "yahoo"

IsPolygon == cfg.DATA_SOURCE = "polygon"

InRows(rec, seq) == \E k \in 1..Len(seq) : seq[k] = rec

ThresholdsOrdered == cfg.MIN_GAP_DOWN_PCT < 0 /\ 0 < cfg.MIN_GAP_UP_PCT

\* The placement the classification boundary asks for, of one record
PlacedByThresholds(rec) ==
    /\ GapEquals(rec.gap_pct, cfg.MIN_GAP_DOWN_PCT) => InRows(rec, data.gap_downs)
    /\ GapEquals(rec.gap_pct, cfg.MIN_GAP_UP_PCT) => InRows(rec, data.gap_ups)
    /\ (~GapLeq(rec.gap_pct, cfg.MIN_GAP_DOWN_PCT) /\ ~GapGeq(rec.gap_pct, cfg.MIN_GAP_UP_PCT))
          => (~InRows(rec, data.gap_downs) /\ ~InRows(rec, data.gap_ups))

\* C1, as stated: every record of either scan with gap_pct equal to down_threshold
\* is in gap_downs, with gap_pct equal to up_threshold is in gap_ups, and with
\* gap_pct strictly between the thresholds is in neither.
C1_AsStated ==
    (Returned /\ ThresholdsOrdered) =>
        \A k \in 1..Len(data.all_data) : PlacedByThresholds(data.all_data[k])

\* C1, amended: the same placement for every record of yahoo_gap_scan and for
\* every record of polygon_gap_scan that the market-cap / optionable filter does
\* not skip; a record the filter skips is in neither gap_downs nor gap_ups.
C1_Boundary ==
    (Returned /\ ThresholdsOrdered) =>
        \A k \in 1..Len(data.all_data) :
            LET rec == data.all_data[k]
            IN  IF IsPolygon /\ SkipReason(rec, meta, cfg) # "none"
                THEN ~InRows(rec, data.gap_downs) /\ ~InRows(rec, data.gap_ups)
                ELSE PlacedByThresholds(rec)

C1_Witness ==
    /\ Returned /\ ThresholdsOrdered
    /\ \E j, k \in 1..Len(data.all_data) :
          /\ GapEquals(data.all_data[j].gap_pct, cfg.MIN_GAP_DOWN_PCT)
          /\ InRows(data.all_data[j], data.gap_downs)
          /\ GapEquals(data.all_data[k].gap_pct, cfg.MIN_GAP_UP_PCT)
          /\ InRows(data.all_data[k], data.gap_ups)

NonDecreasing(seq) == \A k \in 1..(Len(seq) - 1) : ~KeyLess(seq[k + 1], seq[k])

NonIncreasing(seq) == \A k \in 1..(Len(seq) - 1) : ~KeyLess(seq[k], seq[k + 1])

\* C2: in the result of a scan gap_downs is non-decreasing in gap_pct, gap_ups is
\* non-increasing in gap_pct and all_data is non-decreasing in gap_pct.
C2_Sorted ==
    /\ NonDecreasing(data.gap_downs)
    /\ NonIncreasing(data.gap_ups)
    /\ NonDecreasing(data.all_data)

\* A Yahoo result whose gap_ups were appended smallest first
C2_Witness ==
    /\ Returned /\ IsYahoo
    /\ Len(tickers) = 2
    /\ Len(data.gap_ups) = 2
    /\ data.gap_ups[1].ticker = tickers[2]
    /\ data.gap_ups[2].ticker = tickers[1]
    /\ KeyLess(data.gap_ups[2], data.gap_ups[1])

\* C3, as stated: when every symbol of the universe fails to resolve (the scan
\* returns zero records) the run ends in a fatal failure: send_email is never
\* invoked and no email is produced.
C3_TotalFailureIsFatal ==
    (Returned /\ Len(tickers) > 0 /\ Len(data.all_data) = 0) => (~send_invoked /\ ~email_sent)

\* A ticker whose prices resolve: two daily bars and a usable previous close
Resolves(q) == ~q.daily_err /\ Len(q.daily) >= 2 /\ q.daily[Len(q.daily) - 1].Close # 0

ResolvingOf(seq) == SelectSeq(seq, LAMBDA t : Resolves(mkt[t]))

CountOf(seq, sym) == Cardinality({k \in 1..Len(seq) : seq[k].ticker = sym})

Occurrences(seq, sym) == Cardinality({k \in 1..Len(seq) : seq[k] = sym})

\* C4: the loop of yahoo_gap_scan visits every ticker in input order and ends; after
\* i iterations all_data holds, in input order, one record per resolving ticker
\* among the first i, whatever failed before it, and every other ticker is only
\* counted in failed_downloads.
C4_EveryTickerVisited ==
    IsYahoo =>
        /\ i <= Len(tickers)
        /\ pc = "yahoo_loop" =>
              LET want == ResolvingOf(SubSeq(tickers, 1, i))
              IN  /\ Len(all_data) = Len(want)
                  /\ \A k \in 1..Len(want) : all_data[k].ticker = want[k]
                  /\ failed_downloads = i - Len(want)
        /\ Returned =>
              /\ i = Len(tickers)
              /\ \A sym \in Symbols :
                    CountOf(data.all_data, sym) = Occurrences(ResolvingOf(tickers), sym)
              /\ failed_downloads = Len(tickers) - Len(ResolvingOf(tickers))

\* A finished Yahoo scan whose first ticker failed and whose second has a record
C4_Witness ==
    /\ Returned /\ IsYahoo
    /\ Len(tickers) = 2
    /\ ~Resolves(mkt[tickers[1]])
    /\ Resolves(mkt[tickers[2]])
    /\ failed_downloads = 1
    /\ Len(data.all_data) = 1
    /\ data.all_data[1].ticker = tickers[2]

\* C5, as stated: all_data holds at most one record per symbol, also when the
\* ticker sequence names a symbol more than once.
C5_OneRecordPerSymbol ==
    \A j, k \in 1..Len(data.all_data) :
        data.all_data[j].ticker = data.all_data[k].ticker => j = k

\* C6, as stated: the previous close of every record is that of the most recent
\* closed weekday session: Friday for a run on Sunday 21:00 or on Monday 09:00,
\* Monday for a run on Tuesday 14:00, and never a Saturday or a Sunday.
C6_ReferenceSession ==
    \A sym \in Symbols :
        used[sym].tier # "none" =>
            /\ ~IsWeekend(used[sym].prev_date)
            /\ (Weekday(now.date) = 6 /\ now.hour = 21) => Weekday(used[sym].prev_date) = 4
            /\ (Weekday(now.date) = 0 /\ now.hour = 9) => Weekday(used[sym].prev_date) = 4
            /\ (Weekday(now.date) = 1 /\ now.hour = 14) => Weekday(used[sym].prev_date) = 0

LastDaily(q) == q.daily[Len(q.daily)]

NoMinuteRows(q) == Len(q.minute) = 0

\* C7, as stated: a symbol with no minute rows but valid daily rows gets a record
\* whose current price is the close of the most recent daily bar, tagged as the
\* DAILY_CLOSE tier.
C7_AsStated ==
    IsYahoo =>
        \A k \in 1..Len(all_data) :
            NoMinuteRows(mkt[all_data[k].ticker]) =>
                /\ all_data[k].today_open = LastDaily(mkt[all_data[k].ticker]).Close
                /\ all_data[k].data_source = "DAILY_CLOSE"

\* C7, amended: a symbol with no minute rows, at least two daily bars and a non-zero
\* previous close does not fail in yahoo_gap_scan: it gets a record whose current
\* price is the open of the most recent daily bar, tagged regular-open.
C7_DailyOpenFallback ==
    IsYahoo =>
        /\ \A k \in 1..Len(all_data) :
              NoMinuteRows(mkt[all_data[k].ticker]) =>
                  /\ all_data[k].today_open = LastDaily(mkt[all_data[k].ticker]).Open
                  /\ all_data[k].data_source = "regular-open"
        /\ Returned =>
              \A j \in 1..Len(tickers) :
                  (Resolves(mkt[tickers[j]]) /\ NoMinuteRows(mkt[tickers[j]]))
                      => \E k \in 1..Len(data.all_data) : data.all_data[k].ticker = tickers[j]

\* A weekday Yahoo result with a record priced at a daily open that differs from
\* the close of the same bar
C7_Witness ==
    /\ Returned /\ IsYahoo /\ ~IsWeekend(now.date)
    /\ \E k \in 1..Len(data.all_data) :
          LET q == mkt[data.all_data[k].ticker]
          IN  /\ NoMinuteRows(q) /\ ~q.minute_err
              /\ LastDaily(q).Open # LastDaily(q).Close
              /\ data.all_data[k].today_open = LastDaily(q).Open

MinuteOfDay(bar) == bar.hour * 60 + bar.minute

HasExactBar(bars, price) ==
    \E j \in 1..Len(bars) : MinuteOfDay(bars[j]) = TargetHour * 60 /\ bars[j].Close = price

\* C8, as stated: a target-time price comes only from a minute bar whose US/Eastern
\* time is the requested hour:minute exactly, in get_premarket_price and in the
\* minute loop of polygon_gap_scan.
C8_AsStated ==
    /\ IsYahoo =>
          \A k \in 1..Len(all_data) :
              all_data[k].data_source = "pre-market"
                  => HasExactBar(mkt[all_data[k].ticker].minute, all_data[k].today_open)
    /\ IsPolygon =>
          \A k \in 1..Len(open_today) :
              open_today[k].tier = "minute"
                  => HasExactBar(mkt[open_today[k].ticker].minute, open_today[k].price)

WithinHalfHour(bar) ==
    /\ TargetHour * 60 - 30 <= MinuteOfDay(bar)
    /\ MinuteOfDay(bar) <= TargetHour * 60 + 30

HasWindowBar(bars) == \E j \in 1..Len(bars) : WithinHalfHour(bars[j])

\* The close of the earliest-listed bar within half an hour of the target time
IsFirstWindowClose(bars, price) ==
    \E j \in 1..Len(bars) :
        /\ WithinHalfHour(bars[j])
        /\ \A h \in 1..(j - 1) : ~WithinHalfHour(bars[h])
        /\ bars[j].Close = price

\* C8, amended: a target-time price is the close of the first minute bar whose
\* US/Eastern time lies within 30 minutes of the requested hour (7:30 to 8:30 for
\* 8:00); there is none exactly when no minute bar obtained lies in that window.
C8_HalfHourWindow ==
    /\ IsYahoo =>
          \A k \in 1..Len(all_data) :
              LET q == mkt[all_data[k].ticker]
              IN  IF ~IsWeekend(now.date) /\ ~q.minute_err /\ HasWindowBar(q.minute)
                  THEN /\ all_data[k].data_source = "pre-market"
                       /\ IsFirstWindowClose(q.minute, all_data[k].today_open)
                  ELSE all_data[k].data_source = "regular-open"
    /\ (IsPolygon /\ pc = "polygon_minute") =>
          \A k \in 1..i :
              LET q == mkt[tickers[k]]
                  bars == MinuteResults(q, now, today_str)
              IN  IF ~q.minute_err /\ HasWindowBar(bars)
                  THEN /\ DictHas(open_today, tickers[k])
                       /\ IsFirstWindowClose(bars, DictGet(open_today, tickers[k]).price)
                  ELSE ~DictHas(open_today, tickers[k])

\* A pre-market price taken from a 7:45 bar although an 8:00 bar follows it
C8_Witness ==
    /\ IsYahoo
    /\ \E k \in 1..Len(all_data) :
          LET bars == mkt[all_data[k].ticker].minute
          IN  /\ Len(bars) = 2
              /\ MinuteOfDay(bars[1]) = TargetHour * 60 - 15
              /\ MinuteOfDay(bars[2]) = TargetHour * 60
              /\ all_data[k].data_source = "pre-market"
              /\ all_data[k].today_open = bars[1].Close
              /\ bars[1].Close # bars[2].Close

\* C9, as stated: in either scan a symbol with no matching target-time bar, a regular
\* open and a previous close gets a record priced at the regular open, whatever
\* the other symbols had.
C9_FallbackPerSymbol ==
    /\ (IsYahoo /\ Returned) =>
          \A j \in 1..Len(tickers) :
              LET q == mkt[tickers[j]]
              IN  (Resolves(q) /\ ~HasWindowBar(q.minute)) =>
                      \E k \in 1..Len(data.all_data) :
                          /\ data.all_data[k].ticker = tickers[j]
                          /\ data.all_data[k].today_open = LastDaily(q).Open
    /\ (IsPolygon /\ Returned) =>
          \A sym \in Symbols :
              LET q == mkt[sym]
              IN  ( /\ ~HasWindowBar(MinuteResults(q, now, today_str))
                    /\ HasBarOn(q, now, today_str) /\ BarOn(q, now, today_str).Open # 0
                    /\ HasBarOn(q, now, prev_trading_day)
                    /\ BarOn(q, now, prev_trading_day).Close # 0 ) =>
                      \E k \in 1..Len(data.all_data) :
                          /\ data.all_data[k].ticker = sym
                          /\ data.all_data[k].today_open = BarOn(q, now, today_str).Open

\* C10, as stated: every record carries the tag of the tier that supplied its
\* current price and is reported under it: pre-market for a minute bar, regular-open
\* for the regular open, in both scans.
C10_ProvenanceTag ==
    Returned =>
        \A k \in 1..Len(data.all_data) :
            LET rec == data.all_data[k]
            IN  /\ used[rec.ticker].tier = "minute" =>
                      (rec.data_source = "pre-market" /\ DataType(rec) = "Pre-market")
                /\ used[rec.ticker].tier = "daily_open" =>
                      (rec.data_source = "regular-open" /\ DataType(rec) = "Regular")

CountIn(seq, rec) == Cardinality({k \in 1..Len(seq) : seq[k] = rec})

\* C11, as stated: in every scan result gap_downs holds exactly the all_data
\* records with gap_pct <= down_threshold and gap_ups exactly those with
\* gap_pct >= up_threshold that are not gap-downs; both are within all_data.
C11_AsStated ==
    Returned =>
        /\ \A k \in 1..Len(data.all_data) :
              LET rec == data.all_data[k]
                  is_down == GapLeq(rec.gap_pct, cfg.MIN_GAP_DOWN_PCT)
                  is_up == GapGeq(rec.gap_pct, cfg.MIN_GAP_UP_PCT) /\ ~is_down
              IN  /\ InRows(rec, data.gap_downs) <=> is_down
                  /\ InRows(rec, data.gap_ups) <=> is_up
        /\ \A k \in 1..Len(data.gap_downs) : InRows(data.gap_downs[k], data.all_data)
        /\ \A k \in 1..Len(data.gap_ups) : InRows(data.gap_ups[k], data.all_data)

\* C11, amended: the same, over the records that the market-cap / optionable
\* filter of polygon_gap_scan does not skip (all records of yahoo_gap_scan); a
\* skipped record is in neither view.  Each record is in its view as many times
\* as it is in all_data.
C11_Partition ==
    Returned =>
        /\ \A k \in 1..Len(data.all_data) :
              LET rec == data.all_data[k]
                  kept == ~IsPolygon \/ SkipReason(rec, meta, cfg) = "none"
                  is_down == kept /\ GapLeq(rec.gap_pct, cfg.MIN_GAP_DOWN_PCT)
                  is_up == kept /\ GapGeq(rec.gap_pct, cfg.MIN_GAP_UP_PCT) /\ ~is_down
              IN  /\ CountIn(data.gap_downs, rec) = IF is_down THEN CountIn(data.all_data, rec) ELSE 0
                  /\ CountIn(data.gap_ups, rec) = IF is_up THEN CountIn(data.all_data, rec) ELSE 0
        /\ \A k \in 1..Len(data.gap_downs) : InRows(data.gap_downs[k], data.all_data)
        /\ \A k \in 1..Len(data.gap_ups) : InRows(data.gap_ups[k], data.all_data)

\* A Polygon result with one record in gap_downs and one that the filter kept out
\* of gap_downs
C11_Witness ==
    /\ Returned /\ IsPolygon
    /\ Len(data.all_data) = 2
    /\ Len(data.gap_downs) = 1
    /\ \A k \in 1..2 : GapLeq(data.all_data[k].gap_pct, cfg.MIN_GAP_DOWN_PCT)
    /\ \E k \in 1..2 : SkipReason(data.all_data[k], meta, cfg) # "none"

\* gap_pct of a record is (today_open - prev_close) / prev_close * 100, exactly
GapRecomputes(rec) ==
    /\ rec.gap_pct.d > 0
    /\ rec.gap_pct.n * rec.prev_close = (rec.today_open - rec.prev_close) * 100 * rec.gap_pct.d

\* gap_pct = n / d
GapIs(rec, n, d) == rec.gap_pct.n * d = n * rec.gap_pct.d

UnparsableThreshold(e) == ~IsFloat(e.MIN_GAP_DOWN_PCT) \/ ~IsFloat(e.MIN_GAP_UP_PCT)

MissingSetting(e) ==
    \/ e.RESEND_API_KEY = "" \/ e.EMAIL_FROM = "" \/ e.EMAIL_TO = ""
    \/ e.DATA_SOURCE \notin {"polygon", "yahoo"}
    \/ e.DATA_SOURCE = "polygon" /\ e.POLYGON_API_KEY = ""
    \/ e.DATA_SOURCE = "yahoo" /\ e.TICKERS_CSV \in {"all_exchanges", "all"}
          /\ e.FINANCIAL_MODELING_PREP_API_KEY = ""
    \/ e.DATA_SOURCE = "yahoo" /\ e.TICKERS_CSV \notin {"all_exchanges", "all"}
          /\ ~FileExists(e.TICKERS_CSV)

ConfigurationError == UnparsableThreshold(env) \/ MissingSetting(env)

\* Data collection failed as a whole: a request of polygon_gap_scan raised, or a
\* scan over a non-empty universe returned no record
CollectionFailure ==
    /\ ~ConfigurationError
    /\ \/ "polygon_failed" \in requests
       \/ Returned /\ Len(tickers) > 0 /\ Len(data.all_data) = 0

DeliveryFailure ==
    ~ConfigurationError /\ ~CollectionFailure /\ send_invoked /\ ~email_sent

\* C13, as stated: a run that succeeds exits with 0, and the three classes of
\* failure exit with three different non-zero codes, one per class: 2 for every
\* configuration error (an unparsable threshold included), 1 for a total failure of
\* data collection, 3 for a failure of delivery.
C13_ExitCodes ==
    pc = "exit" =>
        /\ ConfigurationError => exit_code = 2
        /\ CollectionFailure => exit_code = 1
        /\ DeliveryFailure => exit_code = 3
        /\ (~ConfigurationError /\ ~CollectionFailure /\ ~DeliveryFailure) => exit_code = 0

\* C14: a run whose settings hold a configuration error (a delivery setting, the
\* key of the polygon source or of the exchange listing, or the ticker file is
\* missing, or DATA_SOURCE is unknown) issues no market-data or ticker-universe
\* request and scans no symbol, up to and including its end.
C14_ConfigErrorBeforeRequests ==
    MissingSetting(env) =>
        /\ requests = {}
        /\ i = 0 /\ tickers = <<>>
        /\ successful_downloads = 0 /\ failed_downloads = 0
        /\ all_data = <<>> /\ data = NoData
        /\ ~send_invoked
        /\ (pc = "exit" /\ ~UnparsableThreshold(env)) => exit_code = 2

\* A run ended by the missing key of the polygon source, found inside the scan
C14_Witness ==
    /\ pc = "exit" /\ exit_code = 2
    /\ cfg.DATA_SOURCE = "polygon" /\ cfg.POLYGON_API_KEY = ""
    /\ requests = {}

\* C15: send_email leaves the scan result as it is: over the step of send_email,
\* whether the delivery succeeds or fails, gap_downs, gap_ups and all_data keep
\* their contents and their order.
C15_SendEmailFrame ==
    [][pc = "send" => (data' = data /\ all_data' = all_data /\ gap_down_rows' = gap_down_rows
                        /\ gap_up_rows' = gap_up_rows)]_vars

\* A delivery that failed after a scan that found a gap-down: the result is there
C15_Witness ==
    /\ send_invoked /\ ~email_sent
    /\ pc = "exit" /\ exit_code = 3
    /\ "resend_send" \in requests
    /\ Len(data.gap_downs) > 0
    /\ data.all_data = all_data /\ data.gap_downs = gap_down_rows

\* The view a record goes to when the scan partitions its records
ViewOf(rec) ==
    IF IsPolygon THEN PolygonCategory(rec, meta, cfg) ELSE Category(rec.gap_pct, cfg)

\* The partition and the three sorts of a scan, applied to a list of records
Aggregate(rows) ==
    [ gap_downs |-> SortByGap(SelectSeq(rows, LAMBDA rec : ViewOf(rec) = "down"), FALSE),
      gap_ups |-> SortByGap(SelectSeq(rows, LAMBDA rec : ViewOf(rec) = "up"), TRUE),
      all_data |-> SortByGap(rows, FALSE) ]

\* C16: partitioning and sorting the all_data of a scan result again, under the same
\* thresholds, gives the gap_downs, gap_ups and all_data of the result, element for
\* element, records of equal gap_pct in the same order.
C16_AggregateIdempotent ==
    Returned => Aggregate(data.all_data) = data

\* A Yahoo result over B, A in which both gapped up by the same gap_pct
C16_Witness ==
    /\ Returned /\ IsYahoo
    /\ tickers = << "B", "A" >>
    /\ Len(data.gap_ups) = 2
    /\ data.gap_ups[1].ticker = "B" /\ data.gap_ups[2].ticker = "A"
    /\ data.gap_ups[1].gap_pct = data.gap_ups[2].gap_pct
    /\ data.all_data[1].ticker = "B" /\ data.all_data[2].ticker = "A"

SatisfiesBoth(rec) ==
    GapLeq(rec.gap_pct, cfg.MIN_GAP_DOWN_PCT) /\ GapGeq(rec.gap_pct, cfg.MIN_GAP_UP_PCT)

\* C17, as stated: whatever the two thresholds are, also with down_threshold above
\* up_threshold, no record is in both gap_downs and gap_ups, and a record whose
\* gap_pct meets both thresholds is in gap_downs and not in gap_ups.
C17_AsStated ==
    Returned =>
        \A k \in 1..Len(data.all_data) :
            LET rec == data.all_data[k]
            IN  /\ ~(InRows(rec, data.gap_downs) /\ InRows(rec, data.gap_ups))
                /\ SatisfiesBoth(rec) => (InRows(rec, data.gap_downs) /\ ~InRows(rec, data.gap_ups))

\* C17, amended: no record is in both gap_downs and gap_ups; a record whose gap_pct
\* meets both thresholds is in gap_downs and not in gap_ups, unless the market-cap /
\* optionable filter of polygon_gap_scan skips it, and then it is in neither.
C17_DownFirst ==
    Returned =>
        \A k \in 1..Len(data.all_data) :
            LET rec == data.all_data[k]
            IN  /\ ~(InRows(rec, data.gap_downs) /\ InRows(rec, data.gap_ups))
                /\ SatisfiesBoth(rec) =>
                      IF IsPolygon /\ SkipReason(rec, meta, cfg) # "none"
                      THEN ~InRows(rec, data.gap_downs) /\ ~InRows(rec, data.gap_ups)
                      ELSE InRows(rec, data.gap_downs) /\ ~InRows(rec, data.gap_ups)

\* A result under down_threshold 5 and up_threshold -5 with an unchanged price
\* (gap_pct 0, meeting both) in gap_downs
C17_Witness ==
    /\ Returned
    /\ cfg.MIN_GAP_DOWN_PCT > cfg.MIN_GAP_UP_PCT
    /\ \E k \in 1..Len(data.gap_downs) :
          /\ data.gap_downs[k].gap_pct.n = 0
          /\ SatisfiesBoth(data.gap_downs[k])
          /\ ~InRows(data.gap_downs[k], data.gap_ups)

\* C18, as stated: every record of a scan result has a strictly positive prev_close
\* and a strictly positive today_open; a symbol for which the provider gives a
\* zero price on either side has no record.
C18_PositivePrices ==
    /\ \A k \in 1..Len(all_data) : all_data[k].prev_close > 0 /\ all_data[k].today_open > 0
    /\ \A k \in 1..Len(data.all_data) :
          data.all_data[k].prev_close > 0 /\ data.all_data[k].today_open > 0

\* C19, as stated: whatever error ends a run started by job() of the scheduler
\* (configuration, data collection, delivery), job() returns and the loop of the
\* scheduler goes on: the scheduler process is never ended by a run.
C19_SchedulerSurvives ==
    scheduler_pc # "terminated"

\* C20: in yahoo_gap_scan, after i iterations successful_downloads +
\* failed_downloads = i and len(all_data) = successful_downloads, an iteration adds
\* one to exactly one of the two counters, and at the end of the scan they sum to
\* the number of tickers.
C20_Counters ==
    /\ [](IsYahoo =>
            /\ successful_downloads + failed_downloads = i
            /\ Len(all_data) = successful_downloads
            /\ Returned => successful_downloads + failed_downloads = Len(tickers))
    /\ [][(IsYahoo /\ pc = "yahoo_loop" /\ i' = i + 1) =>
            \/ successful_downloads' = successful_downloads + 1 /\ failed_downloads' = failed_downloads
            \/ failed_downloads' = failed_downloads + 1 /\ successful_downloads' = successful_downloads]_vars

\* A finished Yahoo scan of two tickers, one counted as failed, one as successful
C20_Witness ==
    /\ Returned /\ IsYahoo
    /\ Len(tickers) = 2 /\ i = 2
    /\ successful_downloads = 1 /\ failed_downloads = 1
    /\ Len(data.all_data) = 1

\* C21: on a Saturday or a Sunday get_premarket_price returns None for every
\* ticker and asks the provider for no minute bars; every record of a weekend Yahoo
\* scan is priced at the open of the most recent daily bar and tagged regular-open.
C21_WeekendNoMinuteRequest ==
    IsWeekend(now.date) =>
        /\ \A sym \in Symbols : GetPremarketPrice(mkt[sym], now, TargetHour) = NoPremarket
        /\ IsYahoo =>
              /\ "yf_minute" \notin requests
              /\ \A k \in 1..Len(all_data) :
                    /\ all_data[k].today_open = LastDaily(mkt[all_data[k].ticker]).Open
                    /\ all_data[k].data_source = "regular-open"
              /\ \A k \in 1..Len(data.all_data) :
                    /\ data.all_data[k].today_open = LastDaily(mkt[data.all_data[k].ticker]).Open
                    /\ data.all_data[k].data_source = "regular-open"

\* A finished weekend Yahoo scan with a record priced at the daily open although
\* the provider holds an 8:00 minute bar of another price for the ticker
C21_Witness ==
    /\ Returned /\ IsYahoo /\ IsWeekend(now.date)
    /\ "yf_daily" \in requests /\ "yf_minute" \notin requests
    /\ \E k \in 1..Len(data.all_data) :
          LET q == mkt[data.all_data[k].ticker]
          IN  /\ HasWindowBar(q.minute)
              /\ q.minute[1].Close # LastDaily(q).Open
              /\ data.all_data[k].today_open = LastDaily(q).Open
              /\ data.all_data[k].data_source = "regular-open"

=============================================================================
